---- MODULE Spec2Model ----
(***************************************************************************)
(* Payment routing of python-rinha-backend-2025.                           *)
(*                                                                         *)
(*   app.py            PaymentProcessor: check_health, process_payment,    *)
(*                     process_with_fallback, save_payment, cache_payment  *)
(*   optimizations.py  PerformanceOptimizer: the circuit breaker           *)
(*                                                                         *)
(* Every coroutine runs on one event loop: a coroutine keeps the loop from *)
(* one await to the next.  The variable running names the request that     *)
(* holds the loop; a step that ends at an await releases it.               *)
(***************************************************************************)
EXTENDS Integers, Sequences, FiniteSets, TLC

VARIABLES
    now,                \* time.time(), in whole seconds
    simulated,          \* per URL: "payment-processor" in url
    redis_client,       \* TRUE: connected by lifespan, FALSE: None
    health_cache,       \* PaymentProcessor.health_cache
    last_health_check,  \* PaymentProcessor.last_health_check
    db,                 \* table payments: id -> row
    redis,              \* hash "payments": id -> serialized response
    req,                \* per request: the locals of process_payment
    running,            \* the request holding the event loop, or NoReq
    started,            \* number of POST /payments received so far
    prev_call,          \* history: per URL, the last completed check_health
                        \* and (poll) the result of the last successful poll
    circuit_breaker,    \* PerformanceOptimizer.circuit_breaker
    lastCall,           \* history: the optimizer call made by the last step
    consec,             \* history: failures since the last success or cooldown
    hist_last_failure,  \* history: time of the last record_failure per URL
    cooled,             \* history: cooldown expired, no failure recorded since
    connection_pool,    \* PerformanceOptimizer.connection_pool: URL -> client
    ms,                 \* time.time(): milliseconds gone by within the second
    write_failed,       \* history: ids for which a save or an hset failed
    summary,            \* the last answer of GET /payments-summary
    opt_health_cache,       \* PerformanceOptimizer.health_cache
    opt_last_health_check,  \* PerformanceOptimizer.last_health_check
    cached_health,      \* lru_cache of get_cached_health: <<url, timestamp>> -> value
    task                \* per caller of optimized_health_check: its locals

vars == <<now, simulated, redis_client, health_cache, last_health_check, db,
          redis, req, running, started, prev_call, circuit_breaker, lastCall,
          consec, hist_last_failure, cooled, connection_pool, ms,
          write_failed, summary, opt_health_cache, opt_last_health_check,
          cached_health, task>>

appVars == <<simulated, redis_client, health_cache, last_health_check, db,
             redis, req, running, started, prev_call>>

cbVars == <<circuit_breaker, consec, hist_last_failure, cooled>>

healthVars == <<opt_health_cache, opt_last_health_check, cached_health, task>>

optVars == <<cbVars, connection_pool, healthVars>>

auxVars == <<ms, write_failed, summary>>

-----------------------------------------------------------------------------
(* Bounds of the model *)

MaxTime == 5
MaxTimeCB == 47
MaxPayments == 2
MaxFailures == 6
SinglePayments == 1
MaxTimeCooldown == 64

(* Program constants *)

HealthInterval == 5
FailureThreshold == 5
ResetTimeout == 30

-----------------------------------------------------------------------------
(* Configuration and value domains *)

DefaultUrl == "default_url"
FallbackUrl == "fallback_url"
URLs == {DefaultUrl, FallbackUrl}

NoReq == "none"
Reqs == {"r1", "r2"}
\* a client that waits for each answer before it sends the next request
Serial == {"r1"}
NoTime == -1
NoId == <<>>

Amounts == {-1, 0, 100}
Status == {"healthy", "unhealthy", "unknown"}
\* what response.json() gives for a 200: an object, read by its status, or
\* JSON that is not an object (null, a list, a string, a number)
JsonBodies == Status \cup {"nondict"}
\* the answers to GET /payments/service-health: 200 with a JSON body, 200 with
\* a body that is not JSON, a non-200 answer, a transport error or timeout
ProbeOutcomes == JsonBodies \cup {"badbody", "non200", "error"}
\* the answers to POST /payments: 200 with a JSON body, 200 with a body that
\* is not JSON, a non-200 answer, a transport error or timeout
PostOutcomes == {"ok", "badbody", "non200", "error"}
HealthDelays == {4, 5}
BreakerDelays == {15, 16}
CooldownDelays == {16}

NoResponse == [id |-> NoId, amount |-> 0, status |-> "none", processor |-> "none"]

PaymentResponse(id, amount, processor) ==
    [id |-> id, amount |-> amount, status |-> "processed", processor |-> processor]

\* breaker_open is history: whether PerformanceOptimizer's circuit was open for
\* the selected URL when process_payment reached its attempt.
\* events is history: the outbound calls in order; answers is history: what the
\* POST /payments calls answered, in order.
\* history of a request's latest check_health call: when it was entered, whether
\* it probed, what it returned, and the previous completed call for the same URL
NoCheck == [url |-> "none", at |-> NoTime, probed |-> FALSE, res |-> "none",
            limited |-> FALSE, poll |-> "none",
            prev_at |-> NoTime, prev_res |-> "none"]

IdleReq ==
    [pc |-> "idle", amount |-> 0, payment_id |-> NoId,
     default_health |-> "none", fallback_health |-> "none",
     processor_name |-> "none", current_time |-> NoTime,
     caller |-> "none", response |-> NoResponse, result |-> "none",
     check |-> NoCheck, breaker_open |-> FALSE, events |-> <<>>,
     answers |-> <<>>]

NoCall == [op |-> "none", url |-> "none", ret |-> FALSE, at |-> NoTime,
           pre |-> [present |-> FALSE, last_failure |-> 0, failure_count |-> 0],
           pre_consec |-> 0, pre_hist |-> NoTime, pre_cooled |-> FALSE]

NoEntry == [present |-> FALSE, last_failure |-> 0, failure_count |-> 0]

Tasks == {"t1", "t2"}

\* seen and found are history: the URL's failure counter when the probe was
\* sent and when its answer was handled
IdleTask == [pc |-> "idle", url |-> "none", current_time |-> NoTime,
             ret |-> "none", seen |-> 0, found |-> 0]

NoSummary == [answered |-> FALSE, total_payments |-> 0, total_amount |-> 0,
              payments_by_processor |-> <<>>]

-----------------------------------------------------------------------------
(* Pure parts of PaymentProcessor *)

payment_id(t, amount) == <<t, amount>>

ProcessorUrl(name) == IF name = "fallback" THEN FallbackUrl ELSE DefaultUrl

\* mutant: the fallback is used only when the default is reported unhealthy
select_processor_strict(default_health, fallback_health) ==
    IF default_health = "healthy" THEN "default"
    ELSE IF fallback_health = "healthy" /\ default_health = "unhealthy" THEN "fallback"
    ELSE "default"

\* process_payment, "Estrategia: usar default se saudavel, senao fallback"
select_processor(default_health, fallback_health) ==
    IF default_health = "healthy" THEN "default"
    ELSE IF fallback_health = "healthy" THEN "fallback"
    ELSE "default"

\* check_health's rate limit: answer from the cache without a probe
rate_limited(lhc, u, t) ==
    lhc[u] # NoTime /\ t - lhc[u] < HealthInterval

\* self.health_cache.get(processor_url, {"status": "unknown"})
cache_get(hc, u) == IF hc[u] = "none" THEN "unknown" ELSE hc[u]

\* what check_health returns for a probe's answer
probe_result(outcome) ==
    IF outcome \in JsonBodies THEN outcome ELSE "unhealthy"

\* default_health.get("status") and fallback_health.get("status") in
\* process_payment's selection: AttributeError on a body that is not an object;
\* the second is evaluated only when the default is not healthy
selection_raises(default_health, fallback_health) ==
    \/ default_health = "nondict"
    \/ default_health # "healthy" /\ fallback_health = "nondict"

Upsert(f, k, v) == [i \in DOMAIN f \cup {k} |-> IF i = k THEN v ELSE f[i]]

-----------------------------------------------------------------------------
(* Pure parts of PerformanceOptimizer's circuit breaker *)

Entry(cb, u) == IF cb[u].present THEN cb[u] ELSE NoEntry

\* mutant: the cooldown ends at 30 seconds instead of after them
is_circuit_open_early(cb, u, t) ==
    IF ~cb[u].present THEN FALSE
    ELSE IF cb[u].failure_count >= FailureThreshold
           THEN (IF t - cb[u].last_failure >= ResetTimeout THEN FALSE ELSE TRUE)
           ELSE FALSE

\* mutant: the circuit opens with the sixth failure
is_circuit_open_sixth(cb, u, t) ==
    IF ~cb[u].present THEN FALSE
    ELSE IF cb[u].failure_count > FailureThreshold
           THEN (IF t - cb[u].last_failure > ResetTimeout THEN FALSE ELSE TRUE)
           ELSE FALSE

\* is_circuit_open: the value returned
is_circuit_open(cb, u, t) ==
    IF ~cb[u].present THEN FALSE
    ELSE IF cb[u].failure_count >= FailureThreshold
           THEN (IF t - cb[u].last_failure > ResetTimeout THEN FALSE ELSE TRUE)
           ELSE FALSE

\* mutant: an expired circuit is bypassed, its counter is left as it is
is_circuit_open_bypass(cb, u, t) == cb

\* mutant: any entry older than the cooldown is reset, open or not
is_circuit_open_decays(cb, u, t) ==
    IF cb[u].present /\ t - cb[u].last_failure > ResetTimeout
      THEN [cb EXCEPT ![u] = [present |-> TRUE, last_failure |-> 0, failure_count |-> 0]]
      ELSE cb

\* is_circuit_open: the circuit_breaker dict it leaves ("Reset apos 30 segundos")
is_circuit_open_reset(cb, u, t) ==
    IF /\ cb[u].present
       /\ cb[u].failure_count >= FailureThreshold
       /\ t - cb[u].last_failure > ResetTimeout
      THEN [cb EXCEPT ![u] = [present |-> TRUE, last_failure |-> 0, failure_count |-> 0]]
      ELSE cb

\* mutant: only the first failure stamps the time
record_failure_first_stamp(cb, u, t) ==
    IF ~cb[u].present
      THEN [cb EXCEPT ![u] = [present |-> TRUE, last_failure |-> t, failure_count |-> 1]]
      ELSE [cb EXCEPT ![u].failure_count = @ + 1]

record_failure(cb, u, t) ==
    IF ~cb[u].present
      THEN [cb EXCEPT ![u] = [present |-> TRUE, last_failure |-> t, failure_count |-> 1]]
      ELSE [cb EXCEPT ![u] = [present |-> TRUE, last_failure |-> t,
                              failure_count |-> cb[u].failure_count + 1]]

\* mutant: a success forgets the entry's last failure as well
record_success_clears(cb, u) ==
    IF cb[u].present
      THEN [cb EXCEPT ![u] = [present |-> TRUE, last_failure |-> 0, failure_count |-> 0]]
      ELSE cb

\* mutant: a success does not reset the counter
record_success_keeps(cb, u) == cb

record_success(cb, u) ==
    IF cb[u].present
      THEN [cb EXCEPT ![u].failure_count = 0]
      ELSE cb

-----------------------------------------------------------------------------
Init ==
    /\ now = 0
    /\ simulated \in [URLs -> BOOLEAN]
    /\ redis_client \in BOOLEAN
    /\ health_cache = [u \in URLs |-> "none"]
    /\ last_health_check = [u \in URLs |-> NoTime]
    /\ db = <<>>
    /\ redis = <<>>
    /\ req = [r \in Reqs |-> IdleReq]
    /\ running = NoReq
    /\ started = 0
    /\ prev_call = [u \in URLs |-> [at |-> NoTime, res |-> "none", poll |-> "none"]]
    /\ circuit_breaker = [u \in URLs |-> NoEntry]
    /\ lastCall = NoCall
    /\ consec = [u \in URLs |-> 0]
    /\ hist_last_failure = [u \in URLs |-> NoTime]
    /\ cooled = [u \in URLs |-> FALSE]
    /\ connection_pool = [u \in URLs |-> "none"]
    /\ ms = 0
    /\ write_failed = {}
    /\ summary = NoSummary
    /\ opt_health_cache = [u \in URLs |-> "none"]
    /\ opt_last_health_check = [u \in URLs |-> NoTime]
    /\ cached_health = <<>>
    /\ task = [t \in Tasks |-> IdleTask]

-----------------------------------------------------------------------------
(* PaymentProcessor.process_payment, one action per stretch between awaits *)

Set(r, fields) ==
    req' = [req EXCEPT ![r] = [f \in DOMAIN req[r] |->
                IF f \in DOMAIN fields THEN fields[f] ELSE req[r][f]]]

\* history: the outbound calls of a request, in order, as <<kind, target>>
Log(r, e) == Append(req[r].events, e)

\* create_payment -> process_payment: the payment id is built first
Start(r, amount) ==
    /\ running = NoReq
    /\ req[r].pc = "idle"
    /\ started < MaxPayments
    /\ started' = started + 1
    /\ running' = r
    /\ req' = [req EXCEPT ![r] = [IdleReq EXCEPT
                    !.pc = "check_default", !.amount = amount,
                    !.payment_id = payment_id(<<now, ms>>, amount)]]
    /\ UNCHANGED <<now, simulated, redis_client, health_cache,
                   last_health_check, db, redis, prev_call, optVars, lastCall, auxVars>>

CheckedUrl(r) ==
    IF req[r].pc \in {"check_default", "probe_default"} THEN DefaultUrl ELSE FallbackUrl

\* mutant: the selection is made as soon as the default's health is known
Returned_early(r, u, res) ==
    [pc |-> "select", default_health |-> res]

\* check_health hands res back to process_payment, which goes on without an await
Returned(r, u, res) ==
    IF u = DefaultUrl
      THEN [pc |-> "check_fallback", default_health |-> res]
      ELSE [pc |-> "select", fallback_health |-> res]

Entered(u, probed, res) ==
    [url |-> u, at |-> now, probed |-> probed, res |-> res,
     limited |-> rate_limited(last_health_check, u, now), poll |-> prev_call[u].poll,
     prev_at |-> prev_call[u].at, prev_res |-> prev_call[u].res]

\* check_health up to its await: rate limit, simulated processor, or probe
CheckHealth(r) ==
    /\ running = r
    /\ req[r].pc \in {"check_default", "check_fallback"}
    /\ LET u == CheckedUrl(r)
           cached == cache_get(health_cache, u)
       IN
         IF rate_limited(last_health_check, u, now) THEN
            /\ Set(r, Returned(r, u, cached) @@ [check |-> Entered(u, FALSE, cached)])
            /\ prev_call' = [prev_call EXCEPT ![u] = [at |-> now, res |-> cached,
                                                        poll |-> prev_call[u].poll]]
            /\ UNCHANGED <<health_cache, last_health_check, running>>
         ELSE IF simulated[u] THEN
            /\ health_cache' = [health_cache EXCEPT ![u] = "healthy"]
            /\ last_health_check' = [last_health_check EXCEPT ![u] = now]
            /\ Set(r, Returned(r, u, "healthy") @@ [check |-> Entered(u, FALSE, "healthy")])
            /\ prev_call' = [prev_call EXCEPT ![u] = [at |-> now, res |-> "healthy",
                                                        poll |-> "healthy"]]
            /\ UNCHANGED running
         ELSE
            /\ Set(r, [pc |-> IF u = DefaultUrl THEN "probe_default" ELSE "probe_fallback",
                       current_time |-> now,
                       check |-> Entered(u, TRUE, "none"),
                       events |-> Log(r, <<"probe", u>>)])
            /\ running' = NoReq
            /\ UNCHANGED <<health_cache, last_health_check, prev_call>>
    /\ UNCHANGED <<now, simulated, redis_client, db, redis, started, optVars, lastCall, auxVars>>

\* mutant: a failed probe is stamped as well, so that it is rate limited
ProbeReturn_stamps(r, outcome) ==
    /\ running = NoReq
    /\ req[r].pc \in {"probe_default", "probe_fallback"}
    /\ LET u == CheckedUrl(r)
           res == probe_result(outcome)
       IN
         /\ IF outcome \in JsonBodies
              THEN /\ health_cache' = [health_cache EXCEPT ![u] = outcome]
                   /\ last_health_check' =
                        [last_health_check EXCEPT ![u] = req[r].current_time]
              ELSE /\ last_health_check' =
                        [last_health_check EXCEPT ![u] = req[r].current_time]
                   /\ UNCHANGED health_cache
         /\ Set(r, Returned(r, u, res) @@ [check |-> [req[r].check EXCEPT !.res = res]])
         /\ prev_call' = [prev_call EXCEPT ![u] =
                            [at |-> req[r].current_time, res |-> res,
                             poll |-> IF outcome \in JsonBodies THEN outcome
                                      ELSE prev_call[u].poll]]
    /\ running' = r
    /\ UNCHANGED <<now, simulated, redis_client, db, redis, started, optVars, lastCall, auxVars>>

\* the probe answers: only a 200 is cached and stamped (with the time read on entry)
ProbeReturn(r, outcome) ==
    /\ running = NoReq
    /\ req[r].pc \in {"probe_default", "probe_fallback"}
    /\ LET u == CheckedUrl(r)
           res == probe_result(outcome)
       IN
         /\ IF outcome \in JsonBodies
              THEN /\ health_cache' = [health_cache EXCEPT ![u] = outcome]
                   /\ last_health_check' =
                        [last_health_check EXCEPT ![u] = req[r].current_time]
              ELSE UNCHANGED <<health_cache, last_health_check>>
         /\ Set(r, Returned(r, u, res) @@ [check |-> [req[r].check EXCEPT !.res = res]])
         /\ prev_call' = [prev_call EXCEPT ![u] =
                            [at |-> req[r].current_time, res |-> res,
                             poll |-> IF outcome \in JsonBodies THEN outcome
                                      ELSE prev_call[u].poll]]
    /\ running' = r
    /\ UNCHANGED <<now, simulated, redis_client, db, redis, started, optVars, lastCall, auxVars>>

\* mutant: the selection skips a default whose circuit is open
Select_breaker(r) ==
    /\ running = r
    /\ req[r].pc = "select"
    /\ LET chosen == select_processor(req[r].default_health, req[r].fallback_health)
           name == IF is_circuit_open(circuit_breaker, ProcessorUrl(chosen), now)
                     THEN (IF chosen = "default" THEN "fallback" ELSE "default")
                     ELSE chosen
           u == ProcessorUrl(name)
       IN
         IF selection_raises(req[r].default_health, req[r].fallback_health)
           THEN Set(r, [pc |-> "done", result |-> "error"])
         ELSE IF simulated[u]
           THEN Set(r, [pc |-> "sleep", processor_name |-> name,
                        breaker_open |-> is_circuit_open(circuit_breaker, ProcessorUrl(chosen), now)])
           ELSE Set(r, [pc |-> "post", processor_name |-> name,
                        breaker_open |-> is_circuit_open(circuit_breaker, ProcessorUrl(chosen), now),
                        events |-> Log(r, <<"post", u>>)])
    /\ running' = NoReq
    /\ UNCHANGED <<now, simulated, redis_client, health_cache, last_health_check,
                   db, redis, started, prev_call, optVars, lastCall, auxVars>>

\* the selection, then the try block up to its first await; an exception of
\* the selection is outside the try: create_payment answers HTTP 500
Select(r) ==
    /\ running = r
    /\ req[r].pc = "select"
    /\ LET name == select_processor(req[r].default_health, req[r].fallback_health)
           u == ProcessorUrl(name)
       IN
         IF selection_raises(req[r].default_health, req[r].fallback_health)
           THEN Set(r, [pc |-> "done", result |-> "error"])
         ELSE IF simulated[u]
           THEN Set(r, [pc |-> "sleep", processor_name |-> name,
                        breaker_open |-> is_circuit_open(circuit_breaker, u, now)])
           ELSE Set(r, [pc |-> "post", processor_name |-> name,
                        breaker_open |-> is_circuit_open(circuit_breaker, u, now),
                        events |-> Log(r, <<"post", u>>)])
    /\ running' = NoReq
    /\ UNCHANGED <<now, simulated, redis_client, health_cache, last_health_check,
                   db, redis, started, prev_call, optVars, lastCall, auxVars>>

\* mutant: the simulated processor turns a payment down
SleepDone_fails(r) ==
    /\ running = NoReq
    /\ req[r].pc = "sleep"
    /\ Set(r, [pc |-> "done", result |-> "error"])
    /\ ms' = ms + 1
    /\ UNCHANGED <<now, simulated, redis_client, health_cache, last_health_check,
                   db, redis, started, prev_call, running, optVars, lastCall,
                   write_failed, summary>>

\* asyncio.sleep(0.1) is over: the simulated processor always succeeds
SleepDone(r) ==
    /\ running = NoReq
    /\ req[r].pc = "sleep"
    /\ Set(r, [pc |-> "save",
               response |-> PaymentResponse(req[r].payment_id, req[r].amount,
                                            "local-simulator")])
    /\ running' = r
    /\ ms' = ms + 1
    /\ UNCHANGED <<now, simulated, redis_client, health_cache, last_health_check,
                   db, redis, started, prev_call, optVars, lastCall,
                   write_failed, summary>>

\* mutant: the handler writes the failed payment to the audit trail
OnException_audits(r) ==
    IF req[r].processor_name = "default"
      THEN [pc |-> "fallback", caller |-> "except"]
      ELSE [pc |-> "done", result |-> "error",
            response |-> [PaymentResponse(req[r].payment_id, req[r].amount,
                                          req[r].processor_name)
                            EXCEPT !.status = "failed"],
            events |-> Log(r, <<"save", "ok">>)]

\* "except Exception" of process_payment: the fallback as a last resort
OnException(r) ==
    IF req[r].processor_name = "default"
      THEN [pc |-> "fallback", caller |-> "except"]
      ELSE [pc |-> "done", result |-> "error"]

\* what process_payment does with the answer of the selected processor
AfterPost(r, outcome) ==
    IF outcome = "ok" THEN
        [pc |-> "save",
         response |-> PaymentResponse(req[r].payment_id, req[r].amount,
                                      req[r].processor_name)]
    ELSE IF outcome = "non200" /\ req[r].processor_name = "default"
                               /\ req[r].fallback_health = "healthy" THEN
        [pc |-> "fallback", caller |-> "try"]
    ELSE OnException(r)

PostReturn(r, outcome) ==
    /\ running = NoReq
    /\ req[r].pc = "post"
    /\ Set(r, AfterPost(r, outcome) @@ [answers |-> Append(req[r].answers, outcome)])
    /\ running' = IF AfterPost(r, outcome).pc = "done" THEN NoReq ELSE r
    /\ UNCHANGED <<now, simulated, redis_client, health_cache, last_health_check,
                   db, redis, started, prev_call, optVars, lastCall, auxVars>>

\* process_with_fallback up to its await
Fallback(r) ==
    /\ running = r
    /\ req[r].pc = "fallback"
    /\ IF simulated[FallbackUrl]
         THEN Set(r, [pc |-> "fallback_sleep"])
         ELSE Set(r, [pc |-> "fallback_post", events |-> Log(r, <<"post", FallbackUrl>>)])
    /\ running' = NoReq
    /\ UNCHANGED <<now, simulated, redis_client, health_cache, last_health_check,
                   db, redis, started, prev_call, optVars, lastCall, auxVars>>

FallbackSleepDone(r) ==
    /\ running = NoReq
    /\ req[r].pc = "fallback_sleep"
    /\ Set(r, [pc |-> "save",
               response |-> PaymentResponse(req[r].payment_id, req[r].amount,
                                            "local-simulator-fallback")])
    /\ running' = r
    /\ ms' = ms + 1
    /\ UNCHANGED <<now, simulated, redis_client, health_cache, last_health_check,
                   db, redis, started, prev_call, optVars, lastCall,
                   write_failed, summary>>

\* mutant: the failover record is tagged with the processor that was selected
AfterFallbackPost_selected(r, outcome) ==
    IF outcome \in {"ok", "badbody"} THEN
        [pc |-> "save",
         response |-> PaymentResponse(req[r].payment_id, req[r].amount,
                                      req[r].processor_name)]
    ELSE IF req[r].caller = "try" THEN OnException(r)
    ELSE [pc |-> "done", result |-> "error"]

\* mutant: a failed failover is reported as a record with status failed
AfterFallbackPost_reports(r, outcome) ==
    IF outcome \in {"ok", "badbody"} THEN
        [pc |-> "save",
         response |-> PaymentResponse(req[r].payment_id, req[r].amount, "fallback")]
    ELSE IF req[r].caller = "try" THEN OnException(r)
    ELSE [pc |-> "done", result |-> "ok",
          response |-> [PaymentResponse(req[r].payment_id, req[r].amount, "fallback")
                          EXCEPT !.status = "failed"]]

\* what process_with_fallback does with the fallback's answer; its HTTPException
\* lands in process_payment's "except Exception" when it was called inside the try
AfterFallbackPost(r, outcome) ==
    IF outcome \in {"ok", "badbody"} THEN
        [pc |-> "save",
         response |-> PaymentResponse(req[r].payment_id, req[r].amount, "fallback")]
    ELSE IF req[r].caller = "try" THEN OnException(r)
    ELSE [pc |-> "done", result |-> "error"]

FallbackPostReturn(r, outcome) ==
    /\ running = NoReq
    /\ req[r].pc = "fallback_post"
    /\ Set(r, AfterFallbackPost(r, outcome)
                 @@ [answers |-> Append(req[r].answers, outcome)])
    /\ running' = IF AfterFallbackPost(r, outcome).pc = "done" THEN NoReq ELSE r
    /\ UNCHANGED <<now, simulated, redis_client, health_cache, last_health_check,
                   db, redis, started, prev_call, optVars, lastCall, auxVars>>

\* db.add + db.commit: a new row, or an exception that save_payment swallows
\* (the database is down, or the primary key exists already)
save_payment(rows, payment, ok) ==
    IF ok /\ payment.id \notin DOMAIN rows
      THEN Upsert(rows, payment.id, payment)
      ELSE rows

\* whether db.commit() went through
committed(rows, payment, ok) == ok /\ payment.id \notin DOMAIN rows

\* history: how save_payment ended (IntegrityError on an id that has a row)
save_outcome(rows, payment, ok) ==
    IF committed(rows, payment, ok) THEN "ok"
    ELSE IF ok THEN "duplicate"
    ELSE "failed"

\* save_payment has no await; cache_payment awaits hset when there is a client
Save(r, ok) ==
    /\ running = r
    /\ req[r].pc = "save"
    /\ db' = save_payment(db, req[r].response, ok)
    /\ LET saved == <<"save", save_outcome(db, req[r].response, ok)>> IN
         IF redis_client
           THEN /\ Set(r, [pc |-> "cache",
                           events |-> Log(r, saved) \o << <<"cache", "sent">> >>])
                /\ running' = NoReq
           ELSE /\ Set(r, [pc |-> "done", result |-> "ok", events |-> Log(r, saved)])
                /\ running' = NoReq
    /\ write_failed' = IF committed(db, req[r].response, ok)
                         THEN write_failed
                         ELSE write_failed \cup {req[r].payment_id}
    /\ summary' = NoSummary
    /\ UNCHANGED <<now, simulated, redis_client, health_cache, last_health_check,
                   redis, started, prev_call, optVars, lastCall, ms>>

\* mutant: hset is acknowledged and nothing is stored
cache_payment_drops(hash, payment, ok) == hash

\* redis_client.hset("payments", id, ...) answers, or raises (swallowed)
cache_payment(hash, payment, ok) ==
    IF ok THEN Upsert(hash, payment.id, payment) ELSE hash

CacheReturn(r, ok) ==
    /\ running = NoReq
    /\ req[r].pc = "cache"
    /\ redis' = cache_payment(redis, req[r].response, ok)
    /\ Set(r, [pc |-> "done", result |-> "ok"])
    /\ write_failed' = IF ok THEN write_failed
                         ELSE write_failed \cup {req[r].payment_id}
    /\ UNCHANGED <<now, simulated, redis_client, health_cache, last_health_check,
                   db, started, prev_call, running, optVars, lastCall, ms, summary>>

\* GET /payments-summary: WHERE status = 'processed'
Processed(rows) == {i \in DOMAIN rows : rows[i].status = "processed"}

\* SUM(amount) over a group of rows
RECURSIVE SumAmount(_, _)
SumAmount(rows, ids) ==
    IF ids = {} THEN 0
    ELSE LET i == CHOOSE i \in ids : TRUE
         IN rows[i].amount + SumAmount(rows, ids \ {i})

\* GROUP BY processor with COUNT(*) and SUM(amount): payments_by_processor
group_by_processor(rows) ==
    [p \in {rows[i].processor : i \in Processed(rows)} |->
        LET group == {i \in Processed(rows) : rows[i].processor = p}
        IN [count |-> Cardinality(group), total_amount |-> SumAmount(rows, group)]]

\* the for loop: total_payments += count, total_amount += amount
RECURSIVE Accumulate(_, _, _)
Accumulate(by, ps, field) ==
    IF ps = {} THEN 0
    ELSE LET p == CHOOSE p \in ps : TRUE
         IN by[p][field] + Accumulate(by, ps \ {p}, field)

\* mutant: the loop adds the count to both totals
get_payments_summary_typo(rows) ==
    LET by == group_by_processor(rows) IN
    [answered |-> TRUE,
     total_payments |-> Accumulate(by, DOMAIN by, "count"),
     total_amount |-> Accumulate(by, DOMAIN by, "count"),
     payments_by_processor |-> by]

get_payments_summary(rows) ==
    LET by == group_by_processor(rows) IN
    [answered |-> TRUE,
     total_payments |-> Accumulate(by, DOMAIN by, "count"),
     total_amount |-> Accumulate(by, DOMAIN by, "total_amount"),
     payments_by_processor |-> by]

\* the handler has no await; an exception of the query is answered with HTTP 500
GetSummary(ok) ==
    /\ running = NoReq
    /\ summary' = IF ok THEN get_payments_summary(db) ELSE NoSummary
    /\ UNCHANGED <<now, appVars, optVars, lastCall, ms, write_failed>>

\* the response (or the HTTP 500) has been sent; the slot serves the next request
Finish(r) ==
    /\ running = NoReq
    /\ req[r].pc = "done"
    /\ req' = [req EXCEPT ![r] = IdleReq]
    /\ UNCHANGED <<now, simulated, redis_client, health_cache, last_health_check,
                   db, redis, started, prev_call, running, optVars, lastCall, auxVars>>

Tick(delays, max) ==
    /\ running = NoReq
    /\ \E d \in delays : now + d <= max /\ now' = now + d
    /\ lastCall' = NoCall
    /\ UNCHANGED <<appVars, optVars, auxVars>>

Next ==
    \/ \E r \in Serial, a \in Amounts : Start(r, a)
    \/ \E r \in Serial : CheckHealth(r)
    \/ \E r \in Serial, o \in ProbeOutcomes : ProbeReturn(r, o)
    \/ \E r \in Serial : Select(r)
    \/ \E r \in Serial : SleepDone(r)
    \/ \E r \in Serial, o \in PostOutcomes : PostReturn(r, o)
    \/ \E r \in Serial : Fallback(r)
    \/ \E r \in Serial : FallbackSleepDone(r)
    \/ \E r \in Serial, o \in PostOutcomes : FallbackPostReturn(r, o)
    \/ \E r \in Serial, ok \in BOOLEAN : Save(r, ok)
    \/ \E r \in Serial, ok \in BOOLEAN : CacheReturn(r, ok)
    \/ \E r \in Serial : Finish(r)
    \/ Tick(HealthDelays, MaxTime)

Spec == Init /\ [][Next]_vars

(* The same program serving a single POST /payments, in every configuration *)

NextSingle ==
    \/ \E r \in Serial, a \in Amounts : started < SinglePayments /\ Start(r, a)
    \/ \E r \in Serial : CheckHealth(r)
    \/ \E r \in Serial, o \in ProbeOutcomes : ProbeReturn(r, o)
    \/ \E r \in Serial : Select(r)
    \/ \E r \in Serial : SleepDone(r)
    \/ \E r \in Serial, o \in PostOutcomes : PostReturn(r, o)
    \/ \E r \in Serial : Fallback(r)
    \/ \E r \in Serial : FallbackSleepDone(r)
    \/ \E r \in Serial, o \in PostOutcomes : FallbackPostReturn(r, o)
    \/ \E r \in Serial, ok \in BOOLEAN : Save(r, ok)
    \/ \E r \in Serial, ok \in BOOLEAN : CacheReturn(r, ok)
    \/ \E r \in Serial : Finish(r)
    \/ Tick(HealthDelays, MaxTime)

SpecSingle == Init /\ [][NextSingle]_vars

(* A single POST /payments on an event loop that runs every ready coroutine *)
(* and whose outbound calls (probes, payment calls, sleeps, hset) all answer *)
(* or time out                                                              *)

Step(r) ==
    \/ CheckHealth(r)
    \/ \E o \in ProbeOutcomes : ProbeReturn(r, o)
    \/ Select(r)
    \/ SleepDone(r)
    \/ \E o \in PostOutcomes : PostReturn(r, o)
    \/ Fallback(r)
    \/ FallbackSleepDone(r)
    \/ \E o \in PostOutcomes : FallbackPostReturn(r, o)
    \/ \E ok \in BOOLEAN : Save(r, ok)
    \/ \E ok \in BOOLEAN : CacheReturn(r, ok)

NextFair ==
    \/ \E r \in Serial : started < SinglePayments /\ Start(r, 100)
    \/ \E r \in Serial : Step(r)
    \/ \E r \in Serial : Finish(r)

SpecFair == Init /\ [][NextFair]_vars /\ \A r \in Serial : WF_vars(Step(r))

(* Payments and GET /payments-summary; the processors answer or fail        *)

NextSummary ==
    \/ \E r \in Serial, a \in Amounts : Start(r, a)
    \/ \E r \in Serial : CheckHealth(r)
    \/ \E r \in Serial, o \in {"healthy", "error"} : ProbeReturn(r, o)
    \/ \E r \in Serial : Select(r)
    \/ \E r \in Serial : SleepDone(r)
    \/ \E r \in Serial, o \in {"ok", "error"} : PostReturn(r, o)
    \/ \E r \in Serial : Fallback(r)
    \/ \E r \in Serial : FallbackSleepDone(r)
    \/ \E r \in Serial, o \in {"ok", "error"} : FallbackPostReturn(r, o)
    \/ \E r \in Serial, ok \in BOOLEAN : Save(r, ok)
    \/ \E r \in Serial : CacheReturn(r, TRUE)
    \/ \E r \in Serial : Finish(r)
    \/ \E ok \in BOOLEAN : GetSummary(ok)

SpecSummary == Init /\ [][NextSummary]_vars

(* Concurrent POST /payments with the default configuration: both URLs      *)
(* contain "payment-processor", so both processors are simulated            *)

InitSimulated ==
    /\ Init
    /\ simulated = [u \in URLs |-> TRUE]

NextConcurrent ==
    \/ \E r \in Reqs, a \in Amounts : Start(r, a)
    \/ \E r \in Reqs : CheckHealth(r)
    \/ \E r \in Reqs : Select(r)
    \/ \E r \in Reqs : SleepDone(r)
    \/ \E r \in Reqs, ok \in BOOLEAN : Save(r, ok)
    \/ \E r \in Reqs, ok \in BOOLEAN : CacheReturn(r, ok)
    \/ \E r \in Reqs : Finish(r)
    \/ Tick(HealthDelays, MaxTime)

SpecConcurrent == InitSimulated /\ [][NextConcurrent]_vars

(* Two POST /payments of the same amount in flight together, live or         *)
(* simulated processors                                                     *)

NextPair ==
    \/ \E r \in Reqs : Start(r, 100)
    \/ \E r \in Reqs : CheckHealth(r)
    \/ \E r \in Reqs, o \in {"healthy", "error"} : ProbeReturn(r, o)
    \/ \E r \in Reqs : Select(r)
    \/ \E r \in Reqs : SleepDone(r)
    \/ \E r \in Reqs, o \in PostOutcomes : PostReturn(r, o)
    \/ \E r \in Reqs : Fallback(r)
    \/ \E r \in Reqs : FallbackSleepDone(r)
    \/ \E r \in Reqs, o \in PostOutcomes : FallbackPostReturn(r, o)
    \/ \E r \in Reqs : Save(r, TRUE)
    \/ \E r \in Reqs : CacheReturn(r, TRUE)

SpecPair == Init /\ [][NextPair]_vars

-----------------------------------------------------------------------------
(* PerformanceOptimizer: the circuit breaker (optimizations.py)             *)

\* history: the call just made, with the state it found
Called(op, u, ret) ==
    [op |-> op, url |-> u, ret |-> ret, at |-> now, pre |-> Entry(circuit_breaker, u),
     pre_consec |-> consec[u], pre_hist |-> hist_last_failure[u],
     pre_cooled |-> cooled[u]]

\* history: the cooldown of an open circuit has run out
Expired(u) ==
    /\ consec[u] >= FailureThreshold
    /\ now - hist_last_failure[u] > ResetTimeout

IsCircuitOpen(u) ==
    /\ running = NoReq
    /\ circuit_breaker' = is_circuit_open_reset(circuit_breaker, u, now)
    /\ lastCall' = Called("is_circuit_open", u, is_circuit_open(circuit_breaker, u, now))
    /\ consec' = [consec EXCEPT ![u] = IF Expired(u) THEN 0 ELSE @]
    /\ cooled' = [cooled EXCEPT ![u] = IF Expired(u) THEN TRUE ELSE @]
    /\ UNCHANGED <<now, appVars, auxVars, connection_pool, healthVars, hist_last_failure>>

RecordFailure(u) ==
    /\ running = NoReq
    /\ Entry(circuit_breaker, u).failure_count < MaxFailures
    /\ consec[u] < MaxFailures
    /\ circuit_breaker' = record_failure(circuit_breaker, u, now)
    /\ lastCall' = Called("record_failure", u, FALSE)
    /\ consec' = [consec EXCEPT ![u] = @ + 1]
    /\ hist_last_failure' = [hist_last_failure EXCEPT ![u] = now]
    /\ cooled' = [cooled EXCEPT ![u] = FALSE]
    /\ UNCHANGED <<now, appVars, auxVars, connection_pool, healthVars>>

RecordSuccess(u) ==
    /\ running = NoReq
    /\ circuit_breaker' = record_success(circuit_breaker, u)
    /\ lastCall' = Called("record_success", u, FALSE)
    /\ consec' = [consec EXCEPT ![u] = 0]
    /\ UNCHANGED <<now, appVars, auxVars, connection_pool, healthVars, hist_last_failure, cooled>>

InitCB ==
    /\ Init
    /\ simulated = [u \in URLs |-> TRUE]
    /\ redis_client

NextCB ==
    \/ \E u \in URLs : IsCircuitOpen(u)
    \/ \E u \in URLs : RecordFailure(u)
    \/ \E u \in URLs : RecordSuccess(u)
    \/ Tick(BreakerDelays, MaxTimeCB)

SpecCB == InitCB /\ [][NextCB]_vars

(* The circuit breaker next to the optimizer's client pool                  *)

\* get_optimized_client: a client is created on the first call for a URL
GetOptimizedClient(u) ==
    /\ running = NoReq
    /\ connection_pool' = [connection_pool EXCEPT ![u] = IF @ = "none" THEN "open" ELSE @]
    /\ lastCall' = Called("get_optimized_client", u, FALSE)
    /\ UNCHANGED <<now, appVars, auxVars, cbVars, healthVars>>

\* close_connections: every pooled client is closed and stays in the pool
CloseConnections ==
    /\ running = NoReq
    /\ connection_pool' = [u \in URLs |->
                             IF connection_pool[u] = "none" THEN "none" ELSE "closed"]
    /\ lastCall' = [NoCall EXCEPT !.op = "close_connections", !.at = now]
    /\ UNCHANGED <<now, appVars, auxVars, cbVars, healthVars>>

NextOptimizer ==
    \/ \E u \in URLs : IsCircuitOpen(u)
    \/ \E u \in URLs : RecordFailure(u)
    \/ \E u \in URLs : RecordSuccess(u)
    \/ \E u \in URLs : GetOptimizedClient(u)
    \/ CloseConnections
    \/ Tick(BreakerDelays, MaxTimeCB)

SpecOptimizer == InitCB /\ [][NextOptimizer]_vars

(* PerformanceOptimizer.optimized_health_check, called by concurrent tasks   *)
(* within one second                                                        *)

\* get_cached_health: lru_cache answers a key it has seen from its memo
get_cached_health(memo, cache, u, timestamp) ==
    IF <<u, timestamp>> \in DOMAIN memo THEN memo[<<u, timestamp>>] ELSE cache[u]

\* mutant: an open circuit has no cooldown, only a success closes it
OptimizedHealthCheck_latched(t, u) ==
    /\ running = NoReq
    /\ task[t].pc = "idle"
    /\ circuit_breaker' = circuit_breaker
    /\ consec' = consec
    /\ cooled' = cooled
    /\ lastCall' = Called("is_circuit_open", u, (Entry(circuit_breaker, u).failure_count >= FailureThreshold))
    /\ IF (Entry(circuit_breaker, u).failure_count >= FailureThreshold) THEN
            /\ task' = [task EXCEPT ![t] = [IdleTask EXCEPT !.url = u,
                            !.current_time = now, !.ret = "circuit_breaker_open"]]
            /\ UNCHANGED <<cached_health, connection_pool>>
       ELSE IF /\ opt_last_health_check[u] # NoTime
               /\ now - opt_last_health_check[u] < HealthInterval THEN
            /\ task' = [task EXCEPT ![t] = [IdleTask EXCEPT !.url = u,
                            !.current_time = now,
                            !.ret = get_cached_health(cached_health, opt_health_cache, u, now)]]
            /\ cached_health' = Upsert(cached_health, <<u, now>>,
                                  get_cached_health(cached_health, opt_health_cache, u, now))
            /\ UNCHANGED connection_pool
       ELSE
            /\ connection_pool' = [connection_pool EXCEPT ![u] = IF @ = "none" THEN "open" ELSE @]
            /\ task' = [task EXCEPT ![t] = [IdleTask EXCEPT !.pc = "probe", !.url = u,
                            !.current_time = now,
                            !.seen = Entry(circuit_breaker', u).failure_count]]
            /\ UNCHANGED cached_health
    /\ UNCHANGED <<now, appVars, auxVars, hist_last_failure, opt_health_cache,
                   opt_last_health_check>>

\* optimized_health_check up to its await: the circuit check (with its lazy
\* reset), the 5 second cache, or get_optimized_client and the probe
OptimizedHealthCheck(t, u) ==
    /\ running = NoReq
    /\ task[t].pc = "idle"
    /\ circuit_breaker' = is_circuit_open_reset(circuit_breaker, u, now)
    /\ consec' = [consec EXCEPT ![u] = IF Expired(u) THEN 0 ELSE @]
    /\ cooled' = [cooled EXCEPT ![u] = IF Expired(u) THEN TRUE ELSE @]
    /\ lastCall' = Called("is_circuit_open", u, is_circuit_open(circuit_breaker, u, now))
    /\ IF is_circuit_open(circuit_breaker, u, now) THEN
            /\ task' = [task EXCEPT ![t] = [IdleTask EXCEPT !.url = u,
                            !.current_time = now, !.ret = "circuit_breaker_open"]]
            /\ UNCHANGED <<cached_health, connection_pool>>
       ELSE IF /\ opt_last_health_check[u] # NoTime
               /\ now - opt_last_health_check[u] < HealthInterval THEN
            /\ task' = [task EXCEPT ![t] = [IdleTask EXCEPT !.url = u,
                            !.current_time = now,
                            !.ret = get_cached_health(cached_health, opt_health_cache, u, now)]]
            /\ cached_health' = Upsert(cached_health, <<u, now>>,
                                  get_cached_health(cached_health, opt_health_cache, u, now))
            /\ UNCHANGED connection_pool
       ELSE
            /\ connection_pool' = [connection_pool EXCEPT ![u] = IF @ = "none" THEN "open" ELSE @]
            /\ task' = [task EXCEPT ![t] = [IdleTask EXCEPT !.pc = "probe", !.url = u,
                            !.current_time = now,
                            !.seen = Entry(circuit_breaker', u).failure_count]]
            /\ UNCHANGED cached_health
    /\ UNCHANGED <<now, appVars, auxVars, hist_last_failure, opt_health_cache,
                   opt_last_health_check>>

\* mutant: the counter is read before the await and written back after it
OptProbeReturn_stale(t, outcome) ==
    /\ running = NoReq
    /\ task[t].pc = "probe"
    /\ LET u == task[t].url IN
         /\ IF outcome \in JsonBodies THEN
                /\ opt_health_cache' = [opt_health_cache EXCEPT ![u] = outcome]
                /\ opt_last_health_check' =
                      [opt_last_health_check EXCEPT ![u] = task[t].current_time]
                /\ circuit_breaker' = record_success(circuit_breaker, u)
                /\ lastCall' = Called("record_success", u, FALSE)
                /\ consec' = [consec EXCEPT ![u] = 0]
                /\ UNCHANGED <<hist_last_failure, cooled>>
            ELSE
                /\ circuit_breaker' = [circuit_breaker EXCEPT ![u] =
                       [present |-> TRUE, last_failure |-> now,
                        failure_count |-> task[t].seen + 1]]
                /\ lastCall' = Called("record_failure", u, FALSE)
                /\ consec' = [consec EXCEPT ![u] = @ + 1]
                /\ hist_last_failure' = [hist_last_failure EXCEPT ![u] = now]
                /\ cooled' = [cooled EXCEPT ![u] = FALSE]
                /\ UNCHANGED <<opt_health_cache, opt_last_health_check>>
         /\ task' = [task EXCEPT ![t].pc = "idle",
                                 ![t].ret = probe_result(outcome),
                                 ![t].found = Entry(circuit_breaker, u).failure_count]
    /\ UNCHANGED <<now, appVars, auxVars, connection_pool, cached_health>>

\* the probe answers: a 200 is cached, stamped with the time read on entry and
\* recorded as a success; anything else (response.json() raising included) is
\* recorded as a failure
OptProbeReturn(t, outcome) ==
    /\ running = NoReq
    /\ task[t].pc = "probe"
    /\ LET u == task[t].url IN
         /\ IF outcome \in JsonBodies THEN
                /\ opt_health_cache' = [opt_health_cache EXCEPT ![u] = outcome]
                /\ opt_last_health_check' =
                      [opt_last_health_check EXCEPT ![u] = task[t].current_time]
                /\ circuit_breaker' = record_success(circuit_breaker, u)
                /\ lastCall' = Called("record_success", u, FALSE)
                /\ consec' = [consec EXCEPT ![u] = 0]
                /\ UNCHANGED <<hist_last_failure, cooled>>
            ELSE
                /\ circuit_breaker' = record_failure(circuit_breaker, u, now)
                /\ lastCall' = Called("record_failure", u, FALSE)
                /\ consec' = [consec EXCEPT ![u] = @ + 1]
                /\ hist_last_failure' = [hist_last_failure EXCEPT ![u] = now]
                /\ cooled' = [cooled EXCEPT ![u] = FALSE]
                /\ UNCHANGED <<opt_health_cache, opt_last_health_check>>
         /\ task' = [task EXCEPT ![t].pc = "idle",
                                 ![t].ret = probe_result(outcome),
                                 ![t].found = Entry(circuit_breaker, u).failure_count]
    /\ UNCHANGED <<now, appVars, auxVars, connection_pool, cached_health>>

NextHealth ==
    \/ \E t \in Tasks, u \in URLs : OptimizedHealthCheck(t, u)
    \/ \E t \in Tasks, o \in {"healthy", "unhealthy", "error"} : OptProbeReturn(t, o)

SpecHealth == InitCB /\ [][NextHealth]_vars

(* optimized_health_check of one URL called again and again while time      *)
(* passes and the processor is down: every probe fails or times out         *)
(* (httpx.Timeout(10.0))                                                    *)

NextCooldown ==
    \/ \E t \in Tasks : OptimizedHealthCheck(t, DefaultUrl)
    \/ \E t \in Tasks : OptProbeReturn(t, "error")
    \/ Tick(CooldownDelays, MaxTimeCooldown)

SpecCooldown ==
    /\ InitCB
    /\ [][NextCooldown]_vars
    /\ WF_vars(Tick(CooldownDelays, MaxTimeCooldown))
    /\ \A t \in Tasks : WF_vars(OptimizedHealthCheck(t, DefaultUrl))
    /\ \A t \in Tasks : WF_vars(OptProbeReturn(t, "error"))

(* Payments against live processors while the optimizer's breaker records   *)
(* failures of the same URLs                                                *)

InitLive ==
    /\ Init
    /\ simulated = [u \in URLs |-> FALSE]
    /\ redis_client

NextBreaker ==
    \/ \E r \in Serial : started < SinglePayments /\ Start(r, 100)
    \/ \E r \in Serial : CheckHealth(r)
    \/ \E r \in Serial, o \in ProbeOutcomes : ProbeReturn(r, o)
    \/ \E r \in Serial : Select(r)
    \/ \E r \in Serial, o \in PostOutcomes : PostReturn(r, o)
    \/ \E r \in Serial : Fallback(r)
    \/ \E r \in Serial, o \in PostOutcomes : FallbackPostReturn(r, o)
    \/ \E r \in Serial, ok \in BOOLEAN : Save(r, ok)
    \/ \E r \in Serial, ok \in BOOLEAN : CacheReturn(r, ok)
    \/ \E r \in Serial : Finish(r)
    \/ \E u \in URLs : RecordFailure(u)
    \/ Tick(HealthDelays, MaxTime)

SpecBreaker == InitLive /\ [][NextBreaker]_vars

(* Two POST /payments up to their selection, in every configuration, while *)
(* time passes: concurrent check_health calls                               *)

NextChecks ==
    \/ \E r \in Reqs : Start(r, 100)
    \/ \E r \in Reqs : CheckHealth(r)
    \/ \E r \in Reqs, o \in {"healthy", "unhealthy", "error"} : ProbeReturn(r, o)
    \/ \E r \in Reqs : Select(r)
    \/ Tick(HealthDelays, MaxTime)

SpecChecks == Init /\ [][NextChecks]_vars

(* Two POST /payments against live processors up to their selection, with   *)
(* the breaker recording failures between them                              *)

NextSelection ==
    \/ \E r \in Reqs : Start(r, 100)
    \/ \E r \in Reqs : CheckHealth(r)
    \/ \E r \in Reqs, o \in {"healthy", "unhealthy", "error"} : ProbeReturn(r, o)
    \/ \E r \in Reqs : Select(r)
    \/ \E u \in URLs : RecordFailure(u)

SpecSelection == InitLive /\ [][NextSelection]_vars

-----------------------------------------------------------------------------
(* The circuit breaker's claims, stated on the step just taken (lastCall)   *)

AnsweredOpen == lastCall.op = "is_circuit_open"

\* C5: after 5 consecutive record_failure(E) calls (counted since the last
\* record_success(E) or cooldown expiry), is_circuit_open(E) returns true as
\* long as at most 30 seconds have passed since the last failure; with fewer
\* than 5 consecutive failures it returns false.
C5_OpensAfterFiveFailures ==
    AnsweredOpen =>
        /\ (/\ lastCall.pre_consec >= 5
            /\ lastCall.at - lastCall.pre_hist <= 30) => lastCall.ret
        /\ lastCall.pre_consec < 5 => ~lastCall.ret

\* the fifth failure was 30 seconds ago and the circuit still answers open
C5_Witness ==
    /\ AnsweredOpen
    /\ lastCall.ret
    /\ lastCall.pre_consec = 5
    /\ lastCall.at - lastCall.pre_hist = 30

\* four failures, a success, then a failure: closed
C5_WitnessInterrupted ==
    /\ AnsweredOpen
    /\ ~lastCall.ret
    /\ lastCall.pre_consec = 1
    /\ lastCall.pre.failure_count = 1

\* C6: once the circuit for E is open and more than 30 seconds pass with no
\* new failure, is_circuit_open(E) returns false and resets the failure counter
\* to zero in that same call, and the next record_failure(E) leaves it at 1.
C6_CooldownResets ==
    /\ (/\ AnsweredOpen
        /\ lastCall.pre_consec >= 5
        /\ lastCall.at - lastCall.pre_hist > 30)
         => /\ ~lastCall.ret
            /\ circuit_breaker[lastCall.url].failure_count = 0
    /\ (lastCall.op = "record_failure" /\ lastCall.pre_cooled)
         => circuit_breaker[lastCall.url].failure_count = 1

\* the first failure after an expired cooldown
C6_Witness ==
    /\ lastCall.op = "record_failure"
    /\ lastCall.pre_cooled
    /\ circuit_breaker[lastCall.url].failure_count = 1

\* C7: is_circuit_open(E) returns true iff, in the state it finds,
\* consecutiveFailures(E) >= 5 and now - lastFailureAt(E) <= 30; the counter
\* is never negative, and an endpoint with no recorded failure is never open.
C7_OpenIff ==
    /\ AnsweredOpen =>
         /\ lastCall.ret <=> (/\ lastCall.pre.failure_count >= 5
                              /\ lastCall.at - lastCall.pre.last_failure <= 30)
         /\ lastCall.pre_hist = NoTime => ~lastCall.ret
    /\ \A u \in URLs : circuit_breaker[u].failure_count >= 0

\* a circuit found closed exactly because its cooldown had run out
C7_Witness ==
    /\ AnsweredOpen
    /\ ~lastCall.ret
    /\ lastCall.pre.failure_count >= 5
    /\ lastCall.at - lastCall.pre.last_failure = 31

\* C18: record_success(E) sets E's failure counter to zero and leaves
\* lastFailureAt(E) and every other endpoint's circuit state unchanged (and it
\* creates no entry for an endpoint that has none).
C18_RecordSuccessFrame ==
    [][lastCall'.op = "record_success" =>
         LET u == lastCall'.url IN
           /\ Entry(circuit_breaker', u).failure_count = 0
           /\ circuit_breaker'[u].last_failure = circuit_breaker[u].last_failure
           /\ circuit_breaker'[u].present = circuit_breaker[u].present
           /\ \A v \in URLs \ {u} : circuit_breaker'[v] = circuit_breaker[v]]_vars

\* a success after failures at a time later than 0, the other endpoint failing too
C18_Witness ==
    /\ lastCall.op = "record_success"
    /\ lastCall.pre.failure_count >= 1
    /\ lastCall.pre.last_failure > 0
    /\ circuit_breaker[lastCall.url].failure_count = 0
    /\ circuit_breaker[lastCall.url].last_failure = lastCall.pre.last_failure
    /\ \E v \in URLs \ {lastCall.url} : circuit_breaker[v].failure_count >= 1

\* C19: record_failure(E) raises E's failure counter by exactly 1 and sets
\* lastFailureAt(E) to the current time whatever state it finds (no entry,
\* closed, open, open with the cooldown run out); a failure recorded on an open
\* circuit therefore keeps it open for the 30 seconds that follow.
C19_RecordFailureCounts ==
    lastCall.op = "record_failure" =>
        LET u == lastCall.url IN
          /\ circuit_breaker[u].present
          /\ circuit_breaker[u].failure_count = lastCall.pre.failure_count + 1
          /\ circuit_breaker[u].last_failure = lastCall.at
          /\ lastCall.at = now
          /\ lastCall.pre.failure_count >= FailureThreshold =>
                \A t \in now..(now + ResetTimeout) :
                    is_circuit_open(circuit_breaker, u, t)

\* a failure recorded on an open circuit whose cooldown had run out
C19_Witness ==
    /\ lastCall.op = "record_failure"
    /\ lastCall.pre.failure_count >= FailureThreshold
    /\ lastCall.at - lastCall.pre.last_failure > ResetTimeout
    /\ circuit_breaker[lastCall.url].failure_count = lastCall.pre.failure_count + 1
    /\ circuit_breaker[lastCall.url].last_failure = lastCall.at

\* the first failure of an endpoint that has no entry yet
C19_WitnessNoEntry ==
    /\ lastCall.op = "record_failure"
    /\ ~lastCall.pre.present
    /\ circuit_breaker[lastCall.url].failure_count = 1

\* C20: the circuit state is changed only by record_success and
\* record_failure: every other operation, is_circuit_open included, the passage
\* of time and the client pool's operations leave it as it is.
C20_OnlyRecordCallsMutate ==
    [][circuit_breaker' # circuit_breaker
         => lastCall'.op \in {"record_success", "record_failure"}]_vars

\* C20 as the code has it: besides record_success and record_failure, the
\* circuit state is changed by is_circuit_open when it finds an open circuit
\* whose cooldown has run out, and then only by resetting that endpoint's entry;
\* an is_circuit_open that finds the circuit closed or still cooling down, the
\* passage of time and the client pool's operations leave it as it is.
C20_OnlyRecordCallsAndResetMutate ==
    [][circuit_breaker' # circuit_breaker
         => \/ lastCall'.op \in {"record_success", "record_failure"}
            \/ /\ lastCall'.op = "is_circuit_open"
               /\ circuit_breaker[lastCall'.url].failure_count >= FailureThreshold
               /\ now - circuit_breaker[lastCall'.url].last_failure > ResetTimeout
               /\ circuit_breaker'[lastCall'.url] =
                    [present |-> TRUE, last_failure |-> 0, failure_count |-> 0]
               /\ \A v \in URLs \ {lastCall'.url} :
                     circuit_breaker'[v] = circuit_breaker[v]]_vars

\* is_circuit_open has just reset an expired circuit while a client is pooled
C20_Witness ==
    /\ lastCall.op = "is_circuit_open"
    /\ lastCall.pre.failure_count >= FailureThreshold
    /\ circuit_breaker[lastCall.url].failure_count = 0
    /\ \E u \in URLs : connection_pool[u] = "closed"

-----------------------------------------------------------------------------
(* The claims about process_payment                                         *)

\* the URLs a request has sent POST /payments to, in order
RECURSIVE PostsOf(_)
PostsOf(events) ==
    IF events = <<>> THEN <<>>
    ELSE IF Head(events)[1] = "post"
           THEN <<Head(events)[2]>> \o PostsOf(Tail(events))
           ELSE PostsOf(Tail(events))

Posts(r) == PostsOf(req[r].events)

Posted(r, u) == \E i \in 1..Len(Posts(r)) : Posts(r)[i] = u

Alternate(u) == IF u = DefaultUrl THEN FallbackUrl ELSE DefaultUrl

Finished(r) == req[r].pc = "done"

\* C1: when process_payment selects the default, the default's payment call
\* fails and the fallback's payment call then succeeds, the call returns a
\* record with status processed and processor fallback, and record_failure
\* (default) and record_success(fallback) have both been invoked.
C1_FailoverRecorded ==
    \A r \in Reqs :
        (/\ Finished(r)
         /\ req[r].processor_name = "default"
         /\ Posts(r) = <<DefaultUrl, FallbackUrl>>
         /\ req[r].result = "ok")
        => /\ req[r].response.status = "processed"
           /\ req[r].response.processor = "fallback"
           /\ hist_last_failure[DefaultUrl] # NoTime
           /\ circuit_breaker[DefaultUrl].present
           /\ consec[FallbackUrl] = 0

\* C2: process_payment ends in an error only if both the selected endpoint
\* and its alternate were exhausted in that call: the alternate was attempted
\* and failed, and the selected one was attempted or skipped for an open
\* circuit, whichever endpoint was selected.
C2_ErrorOnlyWhenBothExhausted ==
    \A r \in Reqs :
        (Finished(r) /\ req[r].result = "error")
        => /\ Posted(r, Alternate(ProcessorUrl(req[r].processor_name)))
           /\ \/ Posted(r, ProcessorUrl(req[r].processor_name))
              \/ req[r].breaker_open

\* C3: within one process_payment the selected endpoint's payment call is
\* issued at most once and the alternate's at most once: at most 2 calls.
C3_FailoverAtMostOnce ==
    \A r \in Reqs :
        /\ Len(Posts(r)) <= 2
        /\ \A i, j \in 1..Len(Posts(r)) : Posts(r)[i] = Posts(r)[j] => i = j

\* C4: if the circuit breaker is open for the selected endpoint when
\* process_payment reaches the attempt, no payment call is issued to it.
C4_OpenCircuitSkipsSelected ==
    \A r \in Reqs :
        req[r].breaker_open => ~Posted(r, ProcessorUrl(req[r].processor_name))

\* C8: if two check_health(E) calls are made less than 5 seconds apart, the
\* second returns the first's result and issues no probe, whatever the first
\* probe's outcome was.
C8_SecondCheckWithinFiveSecondsIsCached ==
    \A r \in Reqs :
        LET c == req[r].check IN
        (c.prev_at # NoTime /\ c.at - c.prev_at < 5)
        => /\ ~c.probed
           /\ c.res # "none" => c.res = c.prev_res

\* C9: the selected endpoint is the default if the default is healthy,
\* otherwise the fallback if the fallback is healthy, otherwise the default,
\* for every pair of health statuses.
C9_SelectionPolicy ==
    \A r \in Reqs :
        req[r].processor_name # "none"
        => /\ req[r].default_health \in Status
           /\ req[r].fallback_health \in JsonBodies
           /\ req[r].processor_name \in {"default", "fallback"}
           /\ req[r].processor_name = "fallback"
                <=> (/\ req[r].default_health # "healthy"
                     /\ req[r].fallback_health = "healthy")

\* the default answered with an unknown status, the fallback is healthy
C9_Witness ==
    \E r \in Reqs :
        /\ req[r].processor_name = "fallback"
        /\ req[r].default_health = "unknown"
        /\ req[r].fallback_health = "healthy"

\* both report something other than healthy: the default is tried anyway
C9_WitnessBothDown ==
    \E r \in Reqs :
        /\ req[r].processor_name = "default"
        /\ req[r].default_health = "unhealthy"
        /\ req[r].fallback_health = "unknown"

\* C10: a request whose amount is not positive is rejected with an error
\* before any network call: no probe, no payment call, no persist, no cache.
C10_NonPositiveAmountRejected ==
    \A r \in Reqs :
        (req[r].pc # "idle" /\ req[r].amount <= 0)
        => /\ req[r].events = <<>>
           /\ req[r].pc \notin {"sleep", "fallback_sleep", "save", "cache"}
           /\ req[r].result # "ok"
           /\ req[r].payment_id \notin DOMAIN db
           /\ req[r].payment_id \notin DOMAIN redis

-----------------------------------------------------------------------------
(* The claims about the audit trail and the simulated processors            *)

HasEvent(r, kind) == \E i \in 1..Len(req[r].events) : req[r].events[i][1] = kind

\* C11: concurrent process_payment calls against simulated processors get
\* pairwise distinct payment ids and each leaves its own row, also when their
\* amount and description are the same and they start in the same millisecond:
\* no save is turned down because a row with its id is there already.
C11_ConcurrentIdsDistinct ==
    /\ \A r1, r2 \in Reqs :
          (r1 # r2 /\ req[r1].pc # "idle" /\ req[r2].pc # "idle")
          => req[r1].payment_id # req[r2].payment_id
    /\ \A r \in Reqs : <<"save", "duplicate">> \notin
                           {req[r].events[i] : i \in 1..Len(req[r].events)}

\* C12: if process_payment ends in an error, that call built no record and
\* called neither save_payment nor hset at any point.
C12_NoRecordOnError ==
    \A r \in Reqs :
        (Finished(r) /\ req[r].result = "error")
        => /\ ~HasEvent(r, "save")
           /\ ~HasEvent(r, "cache")
           /\ req[r].response = NoResponse

\* both processors were called and both turned the payment down
C12_Witness ==
    \E r \in Reqs :
        /\ Finished(r)
        /\ req[r].result = "error"
        /\ Posts(r) = <<DefaultUrl, FallbackUrl>>
        /\ req[r].answers = <<"non200", "error">>

\* C13: whenever a payment call answered 200, process_payment makes no further
\* payment call and returns the processed record built for it, whatever
\* save_payment and cache_payment do and whether or not there is a cache client.
C13_SuccessSurvivesAuditFailures ==
    \A r \in Reqs :
        \A i \in 1..Len(req[r].answers) :
            req[r].answers[i] \in {"ok", "badbody"}
            => /\ Len(Posts(r)) = i
               /\ req[r].pc \in {"save", "cache", "done"}
               /\ Finished(r) =>
                    /\ req[r].result = "ok"
                    /\ req[r].response.id = req[r].payment_id
                    /\ req[r].response.amount = req[r].amount
                    /\ req[r].response.status = "processed"

\* C16: with both processors simulated, every process_payment succeeds without
\* a probe or a payment call: the processed record is built with the request's
\* amount, handed to save_payment, then to cache_payment, and returned.
C16_SimulatedAlwaysSucceeds ==
    \A r \in Reqs :
        /\ ~HasEvent(r, "probe")
        /\ ~HasEvent(r, "post")
        /\ req[r].result # "error"
        /\ req[r].pc \in {"idle", "check_default", "check_fallback", "select",
                           "sleep", "save", "cache", "done"}
        /\ Finished(r) =>
             /\ req[r].result = "ok"
             /\ req[r].response = PaymentResponse(req[r].payment_id, req[r].amount,
                                                  "local-simulator")
             /\ Len(req[r].events) = (IF redis_client THEN 2 ELSE 1)
             /\ req[r].events[1][1] = "save"
             /\ redis_client => req[r].events[2] = <<"cache", "sent">>

\* a payment came back processed although both audit writes failed, while
\* another request is in flight
C16_Witness ==
    \E r1, r2 \in Reqs :
        /\ r1 # r2
        /\ Finished(r1)
        /\ req[r1].result = "ok"
        /\ req[r1].response.amount = req[r1].amount
        /\ req[r1].events = << <<"save", "failed">>, <<"cache", "sent">> >>
        /\ req[r1].payment_id \notin DOMAIN redis
        /\ req[r2].pc = "sleep"

\* a request has written (or tried to write) its row and its hset is awaited
InWindow(id) == \E r \in Reqs : req[r].payment_id = id /\ req[r].pc = "cache"

Settled(id) == id \notin write_failed /\ ~InWindow(id)

C15_HealthCheckNeverFailsPayment ==
    \A r \in Reqs :
        /\ req[r].check.res # "none" => req[r].check.res \in Status
        /\ req[r].default_health # "none" => req[r].default_health \in Status
        /\ req[r].fallback_health # "none" => req[r].fallback_health \in Status
        /\ (Finished(r) /\ req[r].result = "error") => Len(req[r].answers) >= 1

-----------------------------------------------------------------------------
(* The claims about the payment calls of one process_payment                *)

\* C30: if the selected processor's payment call answers 200, whatever the
\* body, no payment call is made to the other processor in that
\* process_payment, so no call has a payment accepted by both processors.
C30_NoFailoverAfter200 ==
    \A r \in Reqs :
        /\ (Len(req[r].answers) >= 1 /\ req[r].answers[1] \in {"ok", "badbody"})
             => Len(Posts(r)) = 1
        /\ Cardinality({i \in 1..Len(req[r].answers) :
                          req[r].answers[i] \in {"ok", "badbody"}}) <= 1

\* the records a state holds: those built by the requests, the rows, the fields
Records ==
    {req[r].response : r \in {q \in Reqs : req[q].response # NoResponse}}
      \cup {db[i] : i \in DOMAIN db} \cup {redis[i] : i \in DOMAIN redis}

ProcessorName(u) == IF u = DefaultUrl THEN "default" ELSE "fallback"

\* the request's record was built for a 200 of a live processor: the selected
\* one's with a JSON body, or the fallback's in process_with_fallback
BuiltForAnswer(r) ==
    LET n == Len(req[r].answers) IN
    /\ req[r].response # NoResponse
    /\ n = Len(Posts(r))
    /\ \/ n = 1 /\ req[r].answers[1] = "ok"
       \/ n >= 2 /\ req[r].answers[n] \in {"ok", "badbody"}

\* C27: every record that process_payment returns, saves or caches has status
\* processed and a processor field that is default or fallback, naming the
\* processor whose payment call succeeded, on the live path, on the failover
\* path and on the simulated path.
C27_ProcessorIsDefaultOrFallback ==
    /\ \A rec \in Records :
          rec.status = "processed" /\ rec.processor \in {"default", "fallback"}
    /\ \A r \in Reqs :
          BuiltForAnswer(r) =>
            req[r].response.processor = ProcessorName(Posts(r)[Len(Posts(r))])

\* C27 as the code has it: every such record has status processed; a record
\* built for the 200 of a live processor names that processor (default or
\* fallback); a record built by a simulated processor says local-simulator when
\* the selected processor is simulated and local-simulator-fallback when the
\* failover went to a simulated fallback.
C27_ProcessorNamesLiveOrSimulator ==
    /\ \A rec \in Records :
          /\ rec.status = "processed"
          /\ rec.processor \in {"default", "fallback", "local-simulator",
                                 "local-simulator-fallback"}
    /\ \A r \in Reqs :
          /\ BuiltForAnswer(r) =>
                req[r].response.processor = ProcessorName(Posts(r)[Len(Posts(r))])
          /\ (req[r].response # NoResponse /\ ~BuiltForAnswer(r)) =>
                /\ simulated[IF Posts(r) = <<>>
                                THEN ProcessorUrl(req[r].processor_name)
                                ELSE FallbackUrl]
                /\ req[r].response.processor =
                     (IF Posts(r) = <<>> THEN "local-simulator"
                                         ELSE "local-simulator-fallback")

\* the live default failed and the live fallback took the payment
C27_Witness ==
    \E r \in Reqs :
        /\ Finished(r)
        /\ req[r].processor_name = "default"
        /\ Posts(r) = <<DefaultUrl, FallbackUrl>>
        /\ req[r].response.processor = "fallback"
        /\ req[r].payment_id \in DOMAIN db
        /\ db[req[r].payment_id].processor = "fallback"

\* the live default failed and the simulated fallback took the payment
C27_WitnessSimulatedFallback ==
    \E r \in Reqs :
        /\ Finished(r)
        /\ Posts(r) = <<DefaultUrl>>
        /\ req[r].response.processor = "local-simulator-fallback"

\* the documented order of a call's outbound steps
Rank(kind) ==
    CASE kind = "probe" -> 1
      [] kind = "post" -> 2
      [] kind = "save" -> 3
      [] kind = "cache" -> 4

CountEvents(r, kind) ==
    Cardinality({i \in 1..Len(req[r].events) : req[r].events[i][1] = kind})

\* C24: within each process_payment, whatever other calls interleave, both
\* health checks are over before any payment call, the selected processor is
\* attempted before the other one, save_payment comes only after a successful
\* payment call and before cache_payment, and the record is returned only
\* after both audit writes were attempted.
C24_StepsInOrder ==
    \A r \in Reqs :
        LET ev == req[r].events IN
        /\ \A i, j \in 1..Len(ev) : i < j => Rank(ev[i][1]) <= Rank(ev[j][1])
        /\ CountEvents(r, "save") <= 1
        /\ CountEvents(r, "cache") <= 1
        /\ (\/ HasEvent(r, "post")
            \/ req[r].pc \in {"sleep", "fallback", "fallback_sleep", "save", "cache"})
             => /\ req[r].default_health # "none"
                /\ req[r].fallback_health # "none"
                /\ req[r].processor_name # "none"
        /\ Posts(r) # <<>> => Posts(r)[1] = ProcessorUrl(req[r].processor_name)
        /\ HasEvent(r, "save") =>
             /\ req[r].response # NoResponse
             /\ Len(req[r].answers) = Len(Posts(r))
             /\ \/ BuiltForAnswer(r)
                \/ simulated[IF Posts(r) = <<>>
                                THEN ProcessorUrl(req[r].processor_name)
                                ELSE FallbackUrl]
        /\ HasEvent(r, "cache") => HasEvent(r, "save")
        /\ (Finished(r) /\ req[r].result = "ok") =>
             /\ HasEvent(r, "save")
             /\ redis_client => HasEvent(r, "cache")

\* a failover came back with its record while the other request is between
\* its health checks
C24_Witness ==
    \E r1, r2 \in Reqs :
        /\ r1 # r2
        /\ Finished(r1)
        /\ req[r1].result = "ok"
        /\ Len(req[r1].events) >= 5
        /\ Posts(r1) = <<DefaultUrl, FallbackUrl>>
        /\ req[r2].pc = "probe_fallback"

\* the requests whose check_health awaits the answer of a probe to u
Probing(u) ==
    {r \in Reqs : /\ req[r].pc \in {"probe_default", "probe_fallback"}
                  /\ CheckedUrl(r) = u}

\* C22: concurrent check_health(E) calls behave as if the rate-limit check
\* and the update of last_health_check / health_cache were one step: at most
\* one probe to E is in flight, and a call that starts while another call's
\* probe to E is awaited sends no second probe.
C22_OneProbeInFlight ==
    \A u \in URLs : Cardinality(Probing(u)) <= 1

\* every payment call of r after the first was answered with o
AlternateAnswered(r, o) ==
    /\ Len(req[r].answers) >= 1
    /\ \A i \in 2..Len(req[r].answers) : req[r].answers[i] = o

\* C23: a timeout or transport error of the selected processor's payment call
\* is handled like a non-200 answer: two calls that made the same selection
\* with the same health results, one getting a non-200 and one an error, and
\* whose calls to the other processor are answered alike, make the same payment
\* calls and end with the same result.
C23_ErrorHandledAsNon200 ==
    \A r1, r2 \in Reqs, o \in PostOutcomes :
        (/\ Finished(r1) /\ Finished(r2)
         /\ req[r1].processor_name = req[r2].processor_name
         /\ req[r1].default_health = req[r2].default_health
         /\ req[r1].fallback_health = req[r2].fallback_health
         /\ AlternateAnswered(r1, o) /\ AlternateAnswered(r2, o)
         /\ req[r1].answers[1] = "non200"
         /\ req[r2].answers[1] = "error")
        => /\ Posts(r1) = Posts(r2)
           /\ req[r1].result = req[r2].result
           /\ req[r1].response.processor = req[r2].response.processor

\* C25: a process_payment that returns a record has called save_payment once
\* and cache_payment once for it, and a row or a cached field, once written,
\* is never changed by a later step of that or of any other call.
C25_WrittenOnceNeverChanged ==
    /\ [](\A r \in Reqs :
            (Finished(r) /\ req[r].result = "ok") =>
                /\ CountEvents(r, "save") = 1
                /\ redis_client => CountEvents(r, "cache") = 1)
    /\ [][(\A id \in DOMAIN db : id \in DOMAIN db' /\ db'[id] = db[id])
           /\ (\A id \in DOMAIN redis :
                  id \in DOMAIN redis' /\ redis'[id] = redis[id])]_vars

\* C26: save_payment is an upsert keyed by id: with the database up, saving a
\* record whose id already has a row succeeds and leaves that id's row holding
\* the record just saved.
C26_SaveIsUpsert ==
    [][\A r \in Reqs :
         (/\ req[r].pc = "save"
          /\ req'[r].pc # "save"
          /\ <<"save", "failed">> \notin
                {req'[r].events[i] : i \in 1..Len(req'[r].events)})
         => /\ <<"save", "duplicate">> \notin
                 {req'[r].events[i] : i \in 1..Len(req'[r].events)}
            /\ req[r].payment_id \in DOMAIN db'
            /\ db'[req[r].payment_id] = req[r].response]_vars

\* r has made its selection
Selected(r) == req[r].processor_name # "none"

\* C28: the selection depends only on the two health results: two calls that
\* saw the same pair of health results select the same processor, whatever the
\* state of the circuit breaker was when each of them selected.
C28_SelectionIgnoresBreaker ==
    \A r1, r2 \in Reqs :
        (/\ Selected(r1) /\ Selected(r2)
         /\ req[r1].default_health = req[r2].default_health
         /\ req[r1].fallback_health = req[r2].fallback_health)
        => req[r1].processor_name = req[r2].processor_name

\* two calls with the same health results, one selecting with the circuit of
\* the selected URL closed and one with it open
C28_Witness ==
    \E r1, r2 \in Reqs :
        /\ Selected(r1) /\ Selected(r2)
        /\ req[r1].default_health = req[r2].default_health
        /\ req[r1].fallback_health = req[r2].fallback_health
        /\ req[r1].fallback_health = "healthy"
        /\ ~req[r1].breaker_open
        /\ req[r2].breaker_open
        /\ req[r1].processor_name = req[r2].processor_name

\* what the caller of POST /payments has got from r
Outcome(r) ==
    IF req[r].result = "ok" /\ req[r].response # NoResponse
         /\ req[r].response.status = "processed" /\ req[r].response.id = req[r].payment_id
      THEN "record"
    ELSE IF req[r].result = "error" /\ req[r].response = NoResponse
      THEN "http500"
    ELSE "other"

\* C29: every process_payment eventually completes, given that each outbound
\* call answers or times out, and it completes either with a record of status
\* processed or with the one generic failure (HTTP 500): never with a failed
\* record, never with anything in between.
C29_CompletesWithOneOutcome ==
    /\ [](\A r \in Reqs : Finished(r) => Outcome(r) \in {"record", "http500"})
    /\ \A r \in Reqs : (req[r].pc # "idle") ~> Finished(r)

\* a call that failed over twice and was answered with the generic failure
C29_Witness ==
    \E r \in Reqs :
        /\ Finished(r)
        /\ Outcome(r) = "http500"
        /\ Len(Posts(r)) = 3

\* a call that completed with a record after a failover
C29_WitnessRecord ==
    \E r \in Reqs :
        /\ Finished(r)
        /\ Outcome(r) = "record"
        /\ Len(Posts(r)) >= 2

\* C21: circuit-breaker updates are not lost: whatever the interleaving of the
\* concurrent optimized_health_check calls, the failure counter of a URL is the
\* number of record_failure calls made for it since its last record_success
\* or cooldown reset.
C21_NoLostUpdate ==
    \A u \in URLs : Entry(circuit_breaker, u).failure_count = consec[u]

\* a probe failed, and while it was awaited another failure of the same URL
\* was recorded
C21_Witness ==
    \E t \in Tasks :
        /\ task[t].pc = "idle"
        /\ lastCall.op = "record_failure"
        /\ lastCall.url = task[t].url
        /\ task[t].found = lastCall.pre.failure_count
        /\ task[t].found > task[t].seen
        /\ consec[task[t].url] = task[t].found + 1

-----------------------------------------------------------------------------
(* The claims about the client pool and optimized_health_check              *)

\* C35: the pool holds one client per URL, get_optimized_client returns the
\* pooled client of the URL, and after any sequence of get_optimized_client
\* and close_connections calls the client it returns has not been closed.
C35_NeverReturnsClosedClient ==
    lastCall.op = "get_optimized_client" =>
        connection_pool[lastCall.url] = "open"

\* C33: in PaymentProcessor a URL has a stamp in last_health_check exactly when
\* it has an entry in health_cache, so a rate-limited check_health never
\* answers with the default {status: unknown}: it answers with the result of
\* the last successful poll of that URL.
C33_RateLimitedAnswersLastPoll ==
    /\ \A u \in URLs : (last_health_check[u] # NoTime) <=> (health_cache[u] # "none")
    /\ \A r \in Reqs :
          req[r].check.limited =>
              /\ req[r].check.poll # "none"
              /\ req[r].check.res = req[r].check.poll

\* a rate-limited call for a live URL, answered with the unhealthy status that
\* another call's probe has polled
C33_Witness ==
    \E r \in Reqs :
        /\ req[r].check.limited
        /\ ~simulated[req[r].check.url]
        /\ req[r].check.res = "unhealthy"

\* task t, idle so far, calls optimized_health_check(u) in this step
Calls(t, u) ==
    /\ task[t].pc = "idle"
    /\ task'[t] # task[t]
    /\ task'[t].url = u

\* five failures in a row for u, the last one at most 30 seconds ago
Open(u) ==
    /\ consec[u] >= FailureThreshold
    /\ now - hist_last_failure[u] <= ResetTimeout

\* C31: while the circuit of a URL is open, optimized_health_check for it
\* answers unhealthy (circuit_breaker_open) without sending a probe and without
\* changing health_cache, last_health_check or the failure counter.
C31_OpenCircuitAnswersWithoutProbe ==
    [][\A t \in Tasks, u \in URLs :
          (Calls(t, u) /\ Open(u)) =>
              /\ task'[t].pc = "idle"
              /\ task'[t].ret = "circuit_breaker_open"
              /\ opt_health_cache' = opt_health_cache
              /\ opt_last_health_check' = opt_last_health_check
              /\ circuit_breaker' = circuit_breaker
              /\ connection_pool' = connection_pool]_vars

\* a call has been turned away by the open circuit of its URL
C31_Witness ==
    \E t \in Tasks :
        /\ task[t].pc = "idle"
        /\ task[t].ret = "circuit_breaker_open"
        /\ Open(task[t].url)
        /\ lastCall.op = "is_circuit_open" /\ lastCall.ret

\* the call of this step is answered from the 5 second cache
CacheHit(u) ==
    /\ ~is_circuit_open(circuit_breaker, u, now)
    /\ opt_last_health_check[u] # NoTime
    /\ now - opt_last_health_check[u] < HealthInterval

\* C34: a cache hit of optimized_health_check returns the value that
\* health_cache holds for the URL at that moment, whatever the interleaving of
\* concurrent calls: never a result that a completed probe has overwritten.
C34_CacheHitReturnsCurrentValue ==
    [][\A t \in Tasks, u \in URLs :
          (Calls(t, u) /\ CacheHit(u)) => task'[t].ret = opt_health_cache[u]]_vars

\* the last failure lies early enough for its cooldown to end within the
\* modelled time: the clock can still advance at every time up to its end
Horizon == MaxTimeCooldown - ResetTimeout - 16

\* a probe of u is in flight that was sent after the last recorded failure:
\* the call that sent it has found the circuit closed
ProbeIssued(u) ==
    \E t \in Tasks :
        /\ task[t].pc = "probe"
        /\ task[t].url = u
        /\ task[t].current_time > hist_last_failure[u]

\* C32: if the circuit of a URL is open and optimized_health_check keeps being
\* called for it while time advances, a call eventually finds the circuit
\* closed and sends a live probe, probes that were in flight when the circuit
\* opened included (up to the end of the modelled time).
C32_OpenCircuitEventuallyProbed ==
    (Open(DefaultUrl) /\ hist_last_failure[DefaultUrl] <= Horizon)
        ~> (\/ hist_last_failure[DefaultUrl] > Horizon
            \/ ProbeIssued(DefaultUrl))

\* the circuit has opened while a probe was in flight, that probe has failed
\* 16 seconds later, and a call has sent a new probe after the cooldown that
\* started with that failure
C32_Witness ==
    /\ ProbeIssued(DefaultUrl)
    /\ cooled[DefaultUrl]
    /\ hist_last_failure[DefaultUrl] > 0
    /\ \E t \in Tasks : /\ task[t].pc = "idle"
                        /\ task[t].found >= FailureThreshold

====
